---- MODULE Spec2Model ----
(***************************************************************************)
(* A model of the RVC voice-conversion job handlers of this repository:    *)
(*   src/src/handler.py          (variant "src_handler", RunPod serverless)*)
(*   src/handler.py              (variant "handler",     RunPod serverless)*)
(*   src/runpod_api_server.py    (variant "api_server",  Flask, threaded)  *)
(* One process runs one of the three programs.  The state is the model     *)
(* cache directory, the /tmp directory, the module-global converter and    *)
(* the position of every job the process is handling.                      *)
(***************************************************************************)
EXTENDS Integers, Sequences, FiniteSets, TLC

\* ------------------------------------------------------------------ bounds
\* Job slots of the process (threads of the Flask server).
MaxThreads == 2
\* Random temp-file names available in /tmp.
NumTmpNames == 4
\* History counters saturate at this value.
MaxCount == 2

\* ---------------------------------------------------------------- variants
Variants == {"src_handler", "handler", "api_server"}

\* runpod.serverless.start({"handler": handler}) passes no concurrency
\* modifier: the worker hands the handler one job at a time.  The Flask
\* server runs with threaded=True: one thread per request.
MaxInFlight(v) == IF v = "api_server" THEN MaxThreads ELSE 1

Threads == 1..MaxThreads

\* ------------------------------------------------------------------ base64
B64Alphabet ==
  << "A","B","C","D","E","F","G","H","I","J","K","L","M","N","O","P",
     "Q","R","S","T","U","V","W","X","Y","Z","a","b","c","d","e","f",
     "g","h","i","j","k","l","m","n","o","p","q","r","s","t","u","v",
     "w","x","y","z","0","1","2","3","4","5","6","7","8","9","+","/" >>

\* The 6-bit value of a base64 character, -1 for a character outside the
\* alphabet.
B64Index(c) ==
  IF \E i \in 1..64 : B64Alphabet[i] = c
  THEN (CHOOSE i \in 1..64 : B64Alphabet[i] = c) - 1
  ELSE -1

\* binascii.a2b_base64 in its default, non-strict mode, as base64.b64decode
\* calls it: characters outside the alphabet are skipped, a pad sequence that
\* completes a quad ends the parse, and data that stops inside a quad is an
\* error (binascii.Error).  The result is [ok, bytes].
RECURSIVE A2B(_, _, _, _, _, _)
A2B(s, i, quad_pos, pads, leftchar, out) ==
  IF i > Len(s)
  THEN [ok |-> quad_pos = 0, bytes |-> out]
  ELSE LET c == s[i]
           v == B64Index(c)
       IN IF c = "="
          THEN IF quad_pos >= 2 /\ quad_pos + pads + 1 >= 4
               THEN [ok |-> TRUE, bytes |-> out]
               ELSE A2B(s, i + 1, quad_pos, pads + 1, leftchar, out)
          ELSE IF v < 0
          THEN A2B(s, i + 1, quad_pos, pads, leftchar, out)
          ELSE CASE quad_pos = 0 -> A2B(s, i + 1, 1, 0, v, out)
                 [] quad_pos = 1 ->
                      A2B(s, i + 1, 2, 0, v % 16,
                          Append(out, (leftchar * 4) + (v \div 16)))
                 [] quad_pos = 2 ->
                      A2B(s, i + 1, 3, 0, v % 4,
                          Append(out, (leftchar * 16) + (v \div 4)))
                 [] OTHER ->
                      A2B(s, i + 1, 0, 0, 0,
                          Append(out, (leftchar * 64) + v))

b64decode(s) == A2B(s, 1, 0, 0, 0, <<>>)

\* An encoder that leaves out the "=" padding of the last group.
RECURSIVE b64encodeNoPad(_)
b64encodeNoPad(b) ==
  IF Len(b) = 0 THEN <<>>
  ELSE IF Len(b) = 1
  THEN << B64Alphabet[(b[1] \div 4) + 1],
          B64Alphabet[((b[1] % 4) * 16) + 1] >>
  ELSE IF Len(b) = 2
  THEN << B64Alphabet[(b[1] \div 4) + 1],
          B64Alphabet[((b[1] % 4) * 16) + (b[2] \div 16) + 1],
          B64Alphabet[((b[2] % 16) * 4) + 1] >>
  ELSE << B64Alphabet[(b[1] \div 4) + 1],
          B64Alphabet[((b[1] % 4) * 16) + (b[2] \div 16) + 1],
          B64Alphabet[((b[2] % 16) * 4) + (b[3] \div 64) + 1],
          B64Alphabet[(b[3] % 64) + 1] >>
       \o b64encodeNoPad(SubSeq(b, 4, Len(b)))

\* base64.b64encode: three bytes to four characters, "=" padding.
RECURSIVE b64encode(_)
b64encode(b) ==
  IF Len(b) = 0 THEN <<>>
  ELSE IF Len(b) = 1
  THEN << B64Alphabet[(b[1] \div 4) + 1],
          B64Alphabet[((b[1] % 4) * 16) + 1], "=", "=" >>
  ELSE IF Len(b) = 2
  THEN << B64Alphabet[(b[1] \div 4) + 1],
          B64Alphabet[((b[1] % 4) * 16) + (b[2] \div 16) + 1],
          B64Alphabet[((b[2] % 16) * 4) + 1], "=" >>
  ELSE << B64Alphabet[(b[1] \div 4) + 1],
          B64Alphabet[((b[1] % 4) * 16) + (b[2] \div 16) + 1],
          B64Alphabet[((b[2] % 16) * 4) + (b[3] \div 64) + 1],
          B64Alphabet[(b[3] % 64) + 1] >>
       \o b64encode(SubSeq(b, 4, Len(b)))

\* ------------------------------------------------------ request parameters
\* dict.get(key, default) on a JSON object, modelled as a function whose
\* domain is the set of keys present.
Get(d, k, default) == IF k \in DOMAIN d THEN d[k] ELSE default

\* A JSON number is [t |-> "int", v |-> n]; a JSON string is
\* [t |-> "str", s |-> <<characters>>].
Digits == << "0","1","2","3","4","5","6","7","8","9" >>
DigitValue(c) ==
  IF \E i \in 1..10 : Digits[i] = c
  THEN (CHOOSE i \in 1..10 : Digits[i] = c) - 1
  ELSE -1

RECURSIVE ParseDigits(_, _)
ParseDigits(s, acc) ==
  IF Len(s) = 0 THEN acc
  ELSE ParseDigits(Tail(s), (acc * 10) + DigitValue(Head(s)))

\* int(x) and float(x) of Python on the JSON values above: a number is
\* taken as it is, a string must be a (signed) run of digits, anything else
\* raises ValueError.  The result is [ok, v].
ParseNumber(x) ==
  IF x.t = "int" THEN [ok |-> TRUE, v |-> x.v]
  ELSE LET neg  == Len(x.s) > 0 /\ x.s[1] = "-"
           body == IF neg THEN Tail(x.s) ELSE x.s
       IN IF Len(body) > 0 /\ \A i \in 1..Len(body) : DigitValue(body[i]) >= 0
          THEN [ok |-> TRUE,
                v |-> IF neg THEN 0 - ParseDigits(body, 0)
                             ELSE ParseDigits(body, 0)]
          ELSE [ok |-> FALSE, v |-> 0]

\* --------------------------------------------------------- the remote store
\* The S3 bucket: keys models/{prefix}/{model_id}.{ext}; the prefix "flat"
\* stands for the unversioned key models/{model_id}.{ext}.
Versions == << "v2", "v1" >>

Store ==
  { << "v2", "spb", "pth" >>, << "v2", "spb", "index" >>,
    << "v1", "spb", "pth" >>,
    << "flat", "spb", "pth" >>, << "flat", "spb", "index" >>,
    << "v1", "kj_yesudas", "pth" >>, << "v1", "kj_yesudas", "index" >> }

ModelIds == { "spb", "kj_yesudas", "ghost" }

\* A file of the cache directory /workspace/models: <<model_id, ext>>.
\* The empty string is the empty sequence.
CachePath(model_id, ext) == << model_id, ext >>
EmptyPath == << >>

\* The cache directories a process can start with: empty, or holding models
\* of the store, each with or without its index (an index is only ever
\* written after its model file).  The Flask server never writes the
\* directory: it starts with one model cached with its index and one without.
InitCaches(v) ==
  IF v = "api_server"
  THEN { { CachePath("spb", "pth"), CachePath("spb", "index"),
           CachePath("kj_yesudas", "pth") } }
  ELSE { { },
         { CachePath("spb", "pth") },
         { CachePath("spb", "pth"), CachePath("spb", "index") },
         { CachePath("spb", "pth"), CachePath("spb", "index"),
           CachePath("kj_yesudas", "pth") } }

\* A version loop in which a failed index download counts as a failure of
\* the version: the loop goes on to the next one.
RECURSIVE TryVersionsIndexRequired(_, _, _, _, _)
TryVersionsIndexRequired(model_id, vs, cacheNow, up, log) ==
  IF vs = << >>
  THEN [ raised |-> TRUE,
         msg |-> << "Model ", model_id, " not found in S3" >>,
         model_path |-> EmptyPath, index_path |-> EmptyPath,
         cache |-> cacheNow, log |-> log, fetched |-> FALSE ]
  ELSE LET pth == << Head(vs), model_id, "pth" >>
           idx == << Head(vs), model_id, "index" >>
           c1  == cacheNow \cup { CachePath(model_id, "pth") }
       IN IF pth \in up /\ idx \in up
          THEN [ raised |-> FALSE, msg |-> << >>,
                 model_path |-> CachePath(model_id, "pth"),
                 index_path |-> CachePath(model_id, "index"),
                 cache |-> c1 \cup { CachePath(model_id, "index") },
                 log |-> log \o << << pth, TRUE >>, << idx, TRUE >> >>,
                 fetched |-> TRUE ]
          ELSE IF pth \in up
          THEN TryVersionsIndexRequired(model_id, Tail(vs), c1, up,
                 log \o << << pth, TRUE >>, << idx, FALSE >> >>)
          ELSE TryVersionsIndexRequired(model_id, Tail(vs), cacheNow, up,
                 Append(log, << pth, FALSE >>))

\* download_model_from_s3 of src/src/handler.py on a cache miss: the versions
\* in order, the first whose model file downloads wins, its index is tried
\* and a failure tolerated.  up is the set of keys whose download succeeds
\* now; s3.download_file leaves no file behind when it fails.
RECURSIVE TryVersions(_, _, _, _, _)
TryVersions(model_id, vs, cacheNow, up, log) ==
  IF vs = << >>
  THEN [ raised |-> TRUE,
         msg |-> << "Model ", model_id, " not found in S3" >>,
         model_path |-> EmptyPath, index_path |-> EmptyPath,
         cache |-> cacheNow, log |-> log, fetched |-> FALSE ]
  ELSE LET pth == << Head(vs), model_id, "pth" >>
           idx == << Head(vs), model_id, "index" >>
       IN IF pth \in up
          THEN LET c1 == cacheNow \cup { CachePath(model_id, "pth") }
                   c2 == IF idx \in up
                         THEN c1 \cup { CachePath(model_id, "index") }
                         ELSE c1
               IN [ raised |-> FALSE, msg |-> << >>,
                    model_path |-> CachePath(model_id, "pth"),
                    index_path |-> IF CachePath(model_id, "index") \in c2
                                   THEN CachePath(model_id, "index")
                                   ELSE EmptyPath,
                    cache |-> c2,
                    log |-> log \o << << pth, TRUE >>, << idx, idx \in up >> >>,
                    fetched |-> TRUE ]
          ELSE TryVersions(model_id, Tail(vs), cacheNow, up,
                           Append(log, << pth, FALSE >>))

\* A download that forgot to blank the index path when the index download
\* failed.
FlatDownloadKeepsIndexPath(model_id, cacheNow, up) ==
  LET pth == << "flat", model_id, "pth" >>
      idx == << "flat", model_id, "index" >>
  IN IF pth \in up
     THEN [ raised |-> FALSE, msg |-> << >>,
            model_path |-> CachePath(model_id, "pth"),
            index_path |-> CachePath(model_id, "index"),
            cache |-> cacheNow \cup { CachePath(model_id, "pth") }
                       \cup (IF idx \in up THEN { CachePath(model_id, "index") }
                                           ELSE { }),
            log |-> << << pth, TRUE >>, << idx, idx \in up >> >>,
            fetched |-> TRUE ]
     ELSE [ raised |-> TRUE,
            msg |-> << "Failed to download model ", model_id, ": ", "404" >>,
            model_path |-> EmptyPath, index_path |-> EmptyPath,
            cache |-> cacheNow, log |-> << << pth, FALSE >> >>,
            fetched |-> FALSE ]

\* download_model_from_s3 of src/handler.py on a cache miss: the one
\* unversioned key, then its index.
FlatDownload(model_id, cacheNow, up) ==
  LET pth == << "flat", model_id, "pth" >>
      idx == << "flat", model_id, "index" >>
  IN IF pth \in up
     THEN [ raised |-> FALSE, msg |-> << >>,
            model_path |-> CachePath(model_id, "pth"),
            index_path |-> IF idx \in up THEN CachePath(model_id, "index")
                                         ELSE EmptyPath,
            cache |-> cacheNow \cup { CachePath(model_id, "pth") }
                       \cup (IF idx \in up THEN { CachePath(model_id, "index") }
                                           ELSE { }),
            log |-> << << pth, TRUE >>, << idx, idx \in up >> >>,
            fetched |-> TRUE ]
     ELSE [ raised |-> TRUE,
            msg |-> << "Failed to download model ", model_id, ": ", "404" >>,
            model_path |-> EmptyPath, index_path |-> EmptyPath,
            cache |-> cacheNow, log |-> << << pth, FALSE >> >>,
            fetched |-> FALSE ]

\* A cache-hit path that forgot the sibling index file.
CacheHitNoIndex(model_id, cacheNow) ==
  [ raised |-> FALSE, msg |-> << >>,
    model_path |-> CachePath(model_id, "pth"),
    index_path |-> EmptyPath,
    cache |-> cacheNow, log |-> << >>, fetched |-> FALSE ]

\* The cache-hit path, the same in both serverless handlers.
CacheHit(model_id, cacheNow) ==
  [ raised |-> FALSE, msg |-> << >>,
    model_path |-> CachePath(model_id, "pth"),
    index_path |-> IF CachePath(model_id, "index") \in cacheNow
                   THEN CachePath(model_id, "index") ELSE EmptyPath,
    cache |-> cacheNow, log |-> << >>, fetched |-> FALSE ]

\* A lookup without the "if model_path.exists()" fast path.
download_always(v, model_id, cacheNow, up) ==
  IF v = "src_handler"
  THEN TryVersions(model_id, Versions, cacheNow, up, << >>)
  ELSE FlatDownload(model_id, cacheNow, up)

download_model_from_s3(v, model_id, cacheNow, up) ==
  IF CachePath(model_id, "pth") \in cacheNow
  THEN CacheHit(model_id, cacheNow)
  ELSE IF v = "src_handler"
  THEN TryVersions(model_id, Versions, cacheNow, up, << >>)
  ELSE FlatDownload(model_id, cacheNow, up)

\* The model lookup of convert in runpod_api_server.py: the cache directory
\* only, 404-style failure when the model file is absent.
LocalLookup(model_id, cacheNow) ==
  IF CachePath(model_id, "pth") \notin cacheNow
  THEN [ raised |-> TRUE, msg |-> << "Model ", model_id, " not found" >>,
         model_path |-> EmptyPath, index_path |-> EmptyPath,
         cache |-> cacheNow, log |-> << >>, fetched |-> FALSE ]
  ELSE CacheHit(model_id, cacheNow)

\* ------------------------------------------------------------- the requests
\* A JSON object with no key.
EmptyObj == [ k \in { } |-> k ]

\* The options of one key: absent, or present with one of the values.
Field(k, vals) == { EmptyObj } \cup { k :> x : x \in vals }

\* audio_base64 payloads: the empty string, a string of characters outside
\* the alphabet (decodes to zero bytes), a string with incorrect padding
\* (b64decode raises) and two well-formed payloads.
GoodAudio == << "Q", "Q", "=", "=" >>
AudioValues ==
  { << >>, << " " >>, << "a", "b", "c" >>, GoodAudio }

F0Values == { "rmvpe", "fcpe", "crepe", "crepe-tiny", "bogus" }

NumericFields ==
  { "pitch", "index_ratio", "filter_radius", "rms_mix_rate", "protect" }
NumericValues ==
  { [ t |-> "int", v |-> 2 ],
    [ t |-> "str", s |-> << "-", "3" >> ],
    [ t |-> "str", s |-> << "a", "b", "c" >> ] }

\* The "input" objects: every audio payload with every model id; every f0
\* method and every numeric parameter given alone with a good payload.
Inputs ==
  { a @@ m : a \in Field("audio_base64", AudioValues),
             m \in Field("model_id", { "kj_yesudas", "ghost" }) }
  \cup { ("audio_base64" :> GoodAudio) @@ ("f0_method" :> f) : f \in F0Values }
  \cup { a @@ (k :> x) : a \in Field("audio_base64", { GoodAudio }),
                         k \in NumericFields, x \in NumericValues }

\* The inputs of the jobs that run side by side: while a job is in a slot,
\* the other slots take jobs with one of these inputs or the first job has one.
BasicInputs == { "audio_base64" :> GoodAudio }

JobIds == { "j1" }

\* The jobs a process receives: a RunPod job carries an id and an input, a
\* POST /convert carries a JSON body (or none).
JobsOf(v) ==
  IF v = "api_server"
  THEN { EmptyObj } \cup { "input" :> i : i \in Inputs }
  ELSE { d @@ i : d \in Field("id", JobIds),
                  i \in Field("input", Inputs) }

\* ------------------------------------------------------------- validation
Truthy(inp) == "audio_base64" \in DOMAIN inp /\ Len(inp["audio_base64"]) > 0

\* The f0 methods a handler lets through.
AllowedF0(v) ==
  IF v = "handler" THEN { "rmvpe", "fcpe", "crepe", "crepe-tiny" }
                   ELSE { "rmvpe", "fcpe", "crepe" }

CoerceF0(v, f0_method) ==
  IF f0_method \in AllowedF0(v) THEN f0_method ELSE "rmvpe"

\* The numeric parameters in the order each handler parses them, with the
\* defaults (floats in hundredths).
NumericOrder(v) ==
  IF v = "handler"
  THEN << << "pitch", 0 >>, << "index_ratio", 75 >>, << "filter_radius", 3 >>,
          << "rms_mix_rate", 25 >>, << "protect", 33 >> >>
  ELSE << << "pitch", 0 >>, << "index_ratio", 75 >>, << "protect", 33 >>,
          << "rms_mix_rate", 25 >> >>

ParseField(inp, kd) ==
  IF kd[1] \in DOMAIN inp THEN ParseNumber(inp[kd[1]])
                          ELSE [ ok |-> TRUE, v |-> kd[2] ]

\* TRUE when int()/float() raises on one of the numeric parameters.
ParseRaises(v, inp) ==
  \E i \in 1..Len(NumericOrder(v)) : ~ParseField(inp, NumericOrder(v)[i]).ok

\* ------------------------------------------------------ outcomes of a step
\* A step of the handler goes on ("ok"), returns a response ("return") or
\* raises an exception of class cls with message msg ("raise").  A message
\* is a sequence of strings, the pieces of the formatted text.  step names
\* the step that failed ("" when none did): "validation", "parsing", "model",
\* "decode", "construct", "engine" or "output".
Ok ==
  [ kind |-> "ok", step |-> "", cls |-> "", msg |-> << >>,
    body |-> EmptyObj, status |-> 0 ]
Return(body, status) ==
  [ kind |-> "return", step |-> "", cls |-> "", msg |-> << >>,
    body |-> body, status |-> status ]
ErrorBody(msg) == [ error |-> msg ]
Fail(step, msg, status) ==
  [ kind |-> "return", step |-> step, cls |-> "", msg |-> << >>,
    body |-> ErrorBody(msg), status |-> status ]
Raise(step, cls, msg) ==
  [ kind |-> "raise", step |-> step, cls |-> cls, msg |-> msg,
    body |-> EmptyObj, status |-> 0 ]

\* The classes raised in the handlers, all subclasses of Exception.
ExceptionClasses ==
  { "Exception", "ValueError", "KeyError", "AttributeError", "binascii.Error",
    "RuntimeError", "FileNotFoundError" }

\* The responses.  The HTTP status is 0 for the serverless handlers, which
\* return a plain dict.
StatusOf(v, http) == IF v = "api_server" THEN http ELSE 0
\* A handler whose outer clause were "except ValueError".
OuterExceptValueErrorOnly(v, o) ==
  IF o.kind = "raise" /\ o.cls = "ValueError"
  THEN Fail(o.step, o.msg, StatusOf(v, 500))
  ELSE o

\* The handler's outer "except Exception as e: return {"error": str(e)}"
\* (status 500 in the Flask server).
OuterExcept(v, o) ==
  IF o.kind = "raise" /\ o.cls \in ExceptionClasses
  THEN Fail(o.step, o.msg, StatusOf(v, 500))
  ELSE o

ValueErrorMsg == << "invalid literal for int() with base 10" >>

\* The handler up to the model lookup, in each handler's own order.
Validate(v, job) ==
  LET inp == Get(job, "input", EmptyObj)
  IN CASE v = "src_handler" ->
            IF ~Truthy(inp)
            THEN Fail("validation", << "audio_base64 is required" >>, 0)
            ELSE IF ParseRaises(v, inp)
            THEN Raise("parsing", "ValueError", ValueErrorMsg)
            ELSE Ok
       [] v = "handler" ->
            IF "input" \notin DOMAIN job
            THEN Raise("validation", "KeyError", << "'input'" >>)
            ELSE IF ParseRaises(v, inp)
            THEN Raise("parsing", "ValueError", ValueErrorMsg)
            ELSE IF ~Truthy(inp)
            THEN Fail("validation", << "audio_base64 is required" >>, 0)
            ELSE Ok
       [] OTHER ->
            IF "input" \notin DOMAIN job
            THEN Raise("validation", "AttributeError",
                       << "'NoneType' object has no attribute 'get'" >>)
            ELSE IF ~Truthy(inp)
            THEN Fail("validation", << "audio_base64 required" >>, 400)
            ELSE IF ParseRaises(v, inp)
            THEN Raise("parsing", "ValueError", ValueErrorMsg)
            ELSE Ok

\* ------------------------------------------------------------------- /tmp
TmpPool == << "a", "b", "c", "d", "e", "f", "g", "h" >>
RandomPaths == { << "tmp", TmpPool[i] >> : i \in 1..NumTmpNames }
FixedPaths == { << "rvc_output", i >> : i \in JobIds \cup { "unknown" } }
TmpPaths == RandomPaths \cup FixedPaths

\* The content of a file: the bytes (0..255) of bytes, repeat times over, as
\* Python writes bytes * repeat.  A file of a few bytes has repeat 1; the
\* repeat lets a file of millions of bytes be a value of the model.
File(bytes) == [ bytes |-> bytes, repeat |-> 1 ]

\* The content of a path that names no file.
NoFile == [ bytes |-> << >>, repeat |-> -1 ]

\* os.path.getsize of an existing file.
Size(f) == Len(f.bytes) * f.repeat

\* The output size from which the result is to be delivered by upload
\* (spec 4.4); no handler of src/ reads the size for that.
InlineThreshold == 5000000

\* An output of 5,000,001 bytes.
LargeOutput == [ bytes |-> << 82, 73, 70 >>, repeat |-> 1666667 ]

\* What the engine may write as its output: nothing at all (an empty file),
\* a few bytes, or a large file.
OutputContents == { File(<< >>), File(<< 255, 0, 7, 9 >>), LargeOutput }

\* base64.b64encode(f.read()).decode() of a file: a text of chars repeated
\* repeat times.  The encoding of a repeated run of bytes is the repeated
\* encoding of the run when the run is a whole number of 3-byte groups, as
\* the runs of the large files here are.
EncodeFile(f) == [ chars |-> b64encode(f.bytes), repeat |-> f.repeat ]

Durations == { 1234 }

\* ------------------------------------------------------------------ state
VARIABLES
  variant,        \* the program this process runs
  mainPc,         \* "preload", "serving" or "dead": the module's top level
  cache,          \* the files of /workspace/models
  tmp,            \* the files of /tmp: path -> content, or NoFile
  converter,      \* the global _converter: 0 is None, else the instance
  constructions,  \* number of VoiceConverter() calls so far (history)
  downloads,      \* per model id, number of lookups that downloaded it
  resolved,       \* per model id, the paths its last lookup returned, or <<>>
  jobs            \* per job slot, the job it runs and where it is

vars ==
  << variant, mainPc, cache, tmp, converter, constructions, downloads, resolved,
     jobs >>

Idle ==
  [ pc |-> "idle", job |-> EmptyObj,
    model_path |-> EmptyPath, index_path |-> EmptyPath,
    log |-> << >>, fetched |-> FALSE, hit |-> FALSE, prev_pair |-> << >>,
    in_path |-> EmptyPath, out_path |-> EmptyPath,
    conv |-> 0, called |-> FALSE, engine_f0 |-> "", duration_ms |-> 0,
    returned |-> FALSE, written |-> NoFile,
    pend |-> Ok,
    result |-> EmptyObj, status |-> 0, raised |-> FALSE, fault |-> "",
    leftover |-> { } ]

Init ==
  /\ variant \in Variants
  /\ mainPc = IF variant = "api_server" THEN "preload" ELSE "serving"
  /\ cache \in InitCaches(variant)
  /\ tmp = [ p \in TmpPaths |-> NoFile ]
  /\ converter = 0
  /\ constructions = 0
  /\ downloads = [ m \in ModelIds |-> 0 ]
  /\ resolved = [ m \in ModelIds |-> << >> ]
  /\ jobs = [ t \in Threads |-> Idle ]

\* ---------------------------------------------------------------- helpers
Inc(n) == IF n < MaxCount THEN n + 1 ELSE MaxCount

Input(j) == Get(j.job, "input", EmptyObj)
ModelIdOf(j) == Get(Input(j), "model_id", "spb")
F0Of(j) == Get(Input(j), "f0_method", "rmvpe")

\* The temp files of job j that exist in directory tmpNow.
Leftover(j, tmpNow) ==
  { p \in { j.in_path, j.out_path } \cap TmpPaths : tmpNow[p] # NoFile }

\* The handler returns to its caller: outcome o has gone through the outer
\* except clause; an exception that clause does not catch escapes.
HandlerExit(v, j, o, tmpNow) ==
  LET x == OuterExcept(v, o)
  IN [ j EXCEPT !.pc = "done", !.pend = Ok,
                !.result = x.body, !.status = x.status,
                !.raised = (x.kind = "raise"), !.fault = x.step,
                !.leftover = Leftover(j, tmpNow) ]

\* tempfile.NamedTemporaryFile and tempfile.mktemp draw a random name
\* ("tmp" and eight random characters) that no file has; mktemp creates
\* nothing.  Random names are taken to be fresh: the name drawn is none a
\* running job holds.  Names are interchangeable, the model takes the first.
Held(t) ==
  UNION { { jobs[u].in_path, jobs[u].out_path } :
            u \in { x \in Threads \ { t } : jobs[x].pc \notin { "idle", "done" } } }
FreeNames(tmpNow, t) ==
  { p \in RandomPaths : tmpNow[p] = NoFile /\ p \notin Held(t) }
FirstOf(S) ==
  << "tmp", TmpPool[CHOOSE i \in 1..NumTmpNames :
                      /\ << "tmp", TmpPool[i] >> \in S
                      /\ \A k \in 1..(i - 1) : << "tmp", TmpPool[k] >> \notin S] >>

MktempNames(tmpNow, t) ==
  IF FreeNames(tmpNow, t) = { } THEN { } ELSE { FirstOf(FreeNames(tmpNow, t)) }

\* Every handler naming its output after the job id, as src/src/handler.py
\* does.
OutputPathsById(v, j, tmpNow, t) ==
  { << "rvc_output", Get(j.job, "id", "unknown") >> }

\* The output path of a job whose input file has been written to tmpNow.
OutputPaths(v, j, tmpNow, t) ==
  IF v = "src_handler"
  THEN { << "rvc_output", Get(j.job, "id", "unknown") >> }
  ELSE MktempNames(tmpNow, t)

\* A success response that left out the model id.
SuccessBodyNoModelId(v, j, content) ==
  [ audio_base64 |-> EncodeFile(content), duration_ms |-> j.duration_ms ]

\* The success response.
SuccessBody(v, j, content) ==
  IF v = "api_server"
  THEN [ success |-> TRUE, audio_base64 |-> EncodeFile(content),
         duration_ms |-> j.duration_ms, model_id |-> ModelIdOf(j) ]
  ELSE [ audio_base64 |-> EncodeFile(content),
         duration_ms |-> j.duration_ms, model_id |-> ModelIdOf(j),
         params |-> [ f0_method |-> j.engine_f0 ] ]

\* After convert_audio has returned: src/src/handler.py checks that the
\* output exists and is not empty, the other two open it at once.
ReadOutput(v, j, tmpNow) ==
  LET content == tmpNow[j.out_path]
  IN IF v = "src_handler"
     THEN IF content = NoFile
          THEN Fail("output", << "Output file not created at " >> \o j.out_path, 0)
          ELSE IF Size(content) = 0
          THEN Fail("output", << "Output file is empty" >>, 0)
          ELSE Return(SuccessBody(v, j, content), 0)
     ELSE IF content = NoFile
          THEN Raise("output", "FileNotFoundError",
                     << "No such file or directory: " >> \o j.out_path)
          ELSE Return(SuccessBody(v, j, content), StatusOf(v, 200))

\* The model lookup of a job: the result of the lookup and the step's
\* outcome.
Lookup(v, model_id, cacheNow, up) ==
  IF v = "api_server" THEN LocalLookup(model_id, cacheNow)
                      ELSE download_model_from_s3(v, model_id, cacheNow, up)

\* The keys of the store a lookup may ask for.
FetchKeys(v, model_id, cacheNow) ==
  IF v = "api_server" \/ CachePath(model_id, "pth") \in cacheNow
  THEN { }
  ELSE { k \in Store : /\ k[2] = model_id
                       /\ (k[1] = "flat") = (v = "handler") }

\* A handler that goes on after a failed lookup.
LookupOutcomeIgnored(v, r) == Ok

\* A failed lookup reported without the model id.
LookupOutcomeNoId(v, r) ==
  IF r.raised
  THEN IF v = "api_server" THEN Fail("model", << "Model not found" >>, 404)
                           ELSE Raise("model", "Exception", << "Model not found" >>)
  ELSE Ok

LookupOutcome(v, r) ==
  IF r.raised
  THEN IF v = "api_server" THEN Fail("model", r.msg, 404)
                           ELSE Raise("model", "Exception", r.msg)
  ELSE IF v = "src_handler" /\ r.model_path \notin r.cache
  THEN Fail("model", << "Model file not found: " >> \o r.model_path, 0)
  ELSE Ok

\* ---------------------------------------------------------------- actions
\* __main__ of runpod_api_server.py: get_converter() before app.run.  A
\* constructor that raises ends the process.
Preload ==
  /\ mainPc = "preload"
  /\ constructions' = Inc(constructions)
  /\ \E ok \in BOOLEAN :
       IF ok THEN converter' = constructions' /\ mainPc' = "serving"
             ELSE converter' = converter /\ mainPc' = "dead"
  /\ UNCHANGED << variant, cache, tmp, downloads, resolved, jobs >>

\* A job arrives and the handler validates it and parses its parameters.
Start(t) ==
  /\ mainPc = "serving"
  /\ t <= MaxInFlight(variant)
  /\ jobs[t].pc = "idle"
  /\ \E job \in JobsOf(variant) :
       /\ \/ Get(job, "input", EmptyObj) \in BasicInputs
          \/ \A u \in Threads \ { t } :
               jobs[u].pc = "idle" \/ Input(jobs[u]) \in BasicInputs
       /\ LET o == Validate(variant, job)
           j == [ Idle EXCEPT !.job = job ]
          IN jobs' = [ jobs EXCEPT ![t] =
                         IF o.kind = "ok" THEN [ j EXCEPT !.pc = "resolve" ]
                                          ELSE HandlerExit(variant, j, o, tmp) ]
  /\ UNCHANGED << variant, mainPc, cache, tmp, converter, constructions, downloads, resolved >>

\* The model lookup: download_model_from_s3(model_id), or the directory
\* check of the Flask server.
Resolve(t) ==
  /\ jobs[t].pc = "resolve"
  /\ \E up \in SUBSET FetchKeys(variant, ModelIdOf(jobs[t]), cache) :
       LET j == jobs[t]
           r == Lookup(variant, ModelIdOf(j), cache, up)
           o == LookupOutcome(variant, r)
           k == [ j EXCEPT !.log = r.log, !.fetched = r.fetched,
                           !.hit = (CachePath(ModelIdOf(j), "pth") \in cache),
                           !.prev_pair = resolved[ModelIdOf(j)],
                           !.model_path = r.model_path,
                           !.index_path = r.index_path ]
       IN /\ cache' = r.cache
          /\ downloads' = [ downloads EXCEPT ![ModelIdOf(j)] =
                              IF r.fetched THEN Inc(@) ELSE @ ]
          /\ resolved' = [ resolved EXCEPT ![ModelIdOf(j)] =
                             IF r.raised THEN @
                             ELSE << r.model_path, r.index_path >> ]
          /\ jobs' = [ jobs EXCEPT ![t] =
                         IF o.kind = "ok" THEN [ k EXCEPT !.pc = "tempfile" ]
                                          ELSE HandlerExit(variant, k, o, tmp) ]
  /\ UNCHANGED << variant, mainPc, tmp, converter, constructions >>

\* The input temp file is created, the payload decoded and written, and
\* the output path chosen.  b64decode runs inside the with block and before
\* the try/finally: when it raises, the file stays.  (The record of the
\* lookup, kept for one step, is dropped here.)
CreateInput(t) ==
  /\ jobs[t].pc = "tempfile"
  /\ FreeNames(tmp, t) # { }
  /\ LET j == jobs[t]
         input_path == FirstOf(FreeNames(tmp, t))
         d == b64decode(Input(j)["audio_base64"])
         k == [ j EXCEPT !.in_path = input_path,
                         !.log = << >>, !.fetched = FALSE,
                         !.hit = FALSE, !.prev_pair = << >> ]
     IN IF ~d.ok
        THEN /\ tmp' = [ tmp EXCEPT ![input_path] = File(<< >>) ]
             /\ jobs' = [ jobs EXCEPT ![t] =
                            HandlerExit(variant, k,
                                        Raise("decode", "binascii.Error",
                                              << "Incorrect padding" >>),
                                        tmp') ]
        ELSE /\ tmp' = [ tmp EXCEPT ![input_path] = File(d.bytes) ]
             /\ \E output_path \in OutputPaths(variant, j, tmp', t) :
                  jobs' = [ jobs EXCEPT ![t] =
                              [ k EXCEPT !.pc = "get_converter",
                                         !.out_path = output_path ] ]
  /\ UNCHANGED << variant, mainPc, cache, converter, constructions, downloads, resolved >>

\* get_converter(): the test of the global.
GetConverter(t) ==
  /\ jobs[t].pc = "get_converter"
  /\ jobs' = [ jobs EXCEPT ![t] =
                 IF converter # 0
                 THEN [ @ EXCEPT !.pc = "convert", !.conv = converter ]
                 ELSE [ @ EXCEPT !.pc = "construct" ] ]
  /\ UNCHANGED << variant, mainPc, cache, tmp, converter, constructions, downloads, resolved >>

\* get_converter(): VoiceConverter() and the assignment of the global.
Construct(t) ==
  /\ jobs[t].pc = "construct"
  /\ constructions' = Inc(constructions)
  /\ \E ok \in BOOLEAN :
       IF ok
       THEN /\ converter' = constructions'
            /\ jobs' = [ jobs EXCEPT ![t] =
                           [ @ EXCEPT !.pc = "convert", !.conv = constructions' ] ]
       ELSE /\ converter' = converter
            /\ jobs' = [ jobs EXCEPT ![t] =
                           [ @ EXCEPT !.pc = "finally",
                                      !.pend = Raise("construct", "RuntimeError",
                                                     << "engine construction failed" >>) ] ]
  /\ UNCHANGED << variant, mainPc, cache, tmp, downloads, resolved >>

\* conv.convert_audio(...) is entered.
EnterConvert(t) ==
  /\ jobs[t].pc = "convert"
  /\ jobs' = [ jobs EXCEPT ![t] =
                 [ @ EXCEPT !.pc = "converting", !.called = TRUE,
                            !.engine_f0 = CoerceF0(variant, F0Of(jobs[t])) ] ]
  /\ UNCHANGED << variant, mainPc, cache, tmp, converter, constructions, downloads, resolved >>

\* conv.convert_audio(...) ends: it raises, or returns having written an
\* output file or none.  written records what the output path holds when
\* the engine returns.
LeaveConvert(t) ==
  /\ jobs[t].pc = "converting"
  /\ \/ /\ jobs' = [ jobs EXCEPT ![t] =
                       [ @ EXCEPT !.pc = "finally",
                                  !.pend = Raise("engine", "RuntimeError",
                                                 << "conversion failed" >>) ] ]
        /\ tmp' = tmp
     \/ \E d \in Durations :
          /\ \/ tmp' = tmp
             \/ \E content \in OutputContents :
                  tmp' = [ tmp EXCEPT ![jobs[t].out_path] = content ]
          /\ jobs' = [ jobs EXCEPT ![t] =
                         [ @ EXCEPT !.pc = "verify", !.duration_ms = d,
                                    !.returned = TRUE,
                                    !.written = tmp'[jobs[t].out_path] ] ]
  /\ UNCHANGED << variant, mainPc, cache, converter, constructions, downloads, resolved >>

\* The output is checked and read, the response built.
VerifyOutput(t) ==
  /\ jobs[t].pc = "verify"
  /\ jobs' = [ jobs EXCEPT ![t] =
                 [ @ EXCEPT !.pc = "finally", !.pend = ReadOutput(variant, jobs[t], tmp) ] ]
  /\ UNCHANGED << variant, mainPc, cache, tmp, converter, constructions, downloads, resolved >>

\* A finally block that unlinks every file of /tmp, not the job's two.
CleanupRemovesAll(t) ==
  /\ jobs[t].pc = "finally"
  /\ LET j == jobs[t]
     IN /\ tmp' = [ p \in TmpPaths |-> NoFile ]
        /\ jobs' = [ jobs EXCEPT ![t] = HandlerExit(variant, j, j.pend, tmp') ]
  /\ UNCHANGED << variant, mainPc, cache, converter, constructions, downloads, resolved >>

\* A finally block that also unlinks the model file the job used.
CleanupRemovesModel(t) ==
  /\ jobs[t].pc = "finally"
  /\ LET j == jobs[t]
     IN /\ tmp' = [ p \in TmpPaths |->
                      IF p \in { j.in_path, j.out_path } THEN NoFile ELSE tmp[p] ]
        /\ cache' = cache \ { j.model_path }
        /\ jobs' = [ jobs EXCEPT ![t] = HandlerExit(variant, j, j.pend, tmp') ]
  /\ UNCHANGED << variant, mainPc, converter, constructions, downloads, resolved >>

\* The finally block unlinks the two temp files that exist, and the handler
\* returns (through the outer except when an exception is pending).
Cleanup(t) ==
  /\ jobs[t].pc = "finally"
  /\ LET j == jobs[t]
     IN /\ tmp' = [ p \in TmpPaths |->
                      IF p \in { j.in_path, j.out_path } THEN NoFile ELSE tmp[p] ]
        /\ jobs' = [ jobs EXCEPT ![t] = HandlerExit(variant, j, j.pend, tmp') ]
  /\ UNCHANGED << variant, mainPc, cache, converter, constructions, downloads, resolved >>

\* The caller has the response; the slot is free for the next job.
Deliver(t) ==
  /\ jobs[t].pc = "done"
  /\ jobs' = [ jobs EXCEPT ![t] = Idle ]
  /\ UNCHANGED << variant, mainPc, cache, tmp, converter, constructions, downloads, resolved >>

Next ==
  \/ Preload
  \/ \E t \in Threads :
       \/ Start(t)
       \/ Resolve(t)
       \/ CreateInput(t)
       \/ GetConverter(t)
       \/ Construct(t)
       \/ EnterConvert(t)
       \/ LeaveConvert(t)
       \/ VerifyOutput(t)
       \/ Cleanup(t)
       \/ Deliver(t)

Spec == Init /\ [][Next]_vars

\* ------------------------------------------------------------- properties
Done(t) == jobs[t].pc = "done"
Contains(msg, str) == \E i \in 1..Len(msg) : msg[i] = str
HasError(j) == "error" \in DOMAIN j.result

\* C1: when the handler has returned, neither the input temp file nor the
\* output temp file of the job exists, whatever step failed.
C1_NoTempFilesAfterReturn ==
  \A t \in Threads : Done(t) => jobs[t].leftover = { }

\* C2: the handler never raises: every job ends with a response, and a job
\* that failed at any step ends with a response that carries an error key.
C2_HandlerNeverRaises ==
  \A t \in Threads :
    Done(t) => /\ ~jobs[t].raised
               /\ jobs[t].fault # "" => HasError(jobs[t])

C2_Witness ==
  \E t \in Threads :
    Done(t) /\ jobs[t].fault = "engine" /\ HasError(jobs[t]) /\ ~jobs[t].raised

\* C3: at most one job is inside convert_audio at any time.
C3_ConversionsSerialized ==
  Cardinality({ t \in Threads : jobs[t].pc = "converting" }) <= 1

\* C4: the engine constructor runs at most once in a process and every
\* caller of get_converter receives the same instance.
C4_ConstructedAtMostOnce ==
  /\ constructions <= 1
  /\ \A t, u \in Threads :
       jobs[t].conv # 0 /\ jobs[u].conv # 0 => jobs[t].conv = jobs[u].conv

\* C5: a lookup that finds the model file in the cache directory fetches
\* nothing from the store and returns the cached model path, with the index
\* path when that file exists and the empty string otherwise.
C5_CacheHitNoFetch ==
  \A t \in Threads :
    jobs[t].hit =>
      /\ jobs[t].pc = "tempfile"
      /\ jobs[t].log = << >> /\ ~jobs[t].fetched
      /\ jobs[t].model_path = CachePath(ModelIdOf(jobs[t]), "pth")
      /\ jobs[t].index_path =
           IF CachePath(ModelIdOf(jobs[t]), "index") \in cache
           THEN CachePath(ModelIdOf(jobs[t]), "index") ELSE EmptyPath

C5_Witness ==
  \E t \in Threads :
    /\ jobs[t].hit /\ variant # "api_server"
    /\ jobs[t].model_path = CachePath("spb", "pth")
    /\ jobs[t].index_path = EmptyPath

\* C6: a lookup of a model id that an earlier lookup resolved returns the
\* same pair of paths and fetches nothing, and no model id is downloaded
\* more than once.
C6_ResolveIdempotent ==
  /\ \A t \in Threads :
       jobs[t].prev_pair # << >> =>
         /\ jobs[t].pc = "tempfile"
         /\ << jobs[t].model_path, jobs[t].index_path >> = jobs[t].prev_pair
         /\ jobs[t].log = << >>
  /\ \A m \in ModelIds : downloads[m] <= 1

C6_Witness ==
  \E t \in Threads :
    /\ jobs[t].prev_pair = << CachePath("spb", "pth"), CachePath("spb", "index") >>
    /\ downloads["spb"] = 1
    /\ jobs[t].pc = "tempfile"

\* C7: on a cache miss the model file is fetched from the versioned keys
\* models/{version}/{model_id}.pth in the order v2, v1: a version is tried
\* only after the one before it failed, and none after a success.
PthFetches(log) == SelectSeq(log, LAMBDA e : e[1][3] = "pth")

C7_VersionOrder ==
  \A t \in Threads :
    jobs[t].log # << >> =>
      LET f == PthFetches(jobs[t].log)
      IN /\ Len(f) >= 1 /\ Len(f) <= Len(Versions)
         /\ \A i \in 1..Len(f) :
              /\ f[i][1] = << Versions[i], ModelIdOf(jobs[t]), "pth" >>
              /\ f[i][2] => i = Len(f)
         /\ ~f[Len(f)][2] => Len(f) = Len(Versions)

\* The same order for the versioned lookup of src/src/handler.py alone.
C7_VersionOrderSrcHandler == variant = "src_handler" => C7_VersionOrder

\* C8: the model ids that no version of the store holds.
AbsentModels == { m \in ModelIds : \A k \in Store : k[2] # m }

UnknownModelReported(j) ==
  /\ ~j.raised
  /\ HasError(j)
  /\ Contains(j.result.error, ModelIdOf(j))
  /\ \A e \in { "pth", "index" } : CachePath(ModelIdOf(j), e) \notin cache

\* C8, as stated: every job for a model id absent from every store version
\* ends with an error that contains the model id, without raising and
\* without a file for that model id in the cache directory.
C8_UnknownModelAnyRequest ==
  \A t \in Threads :
    Done(t) /\ ModelIdOf(jobs[t]) \in AbsentModels => UnknownModelReported(jobs[t])

\* C8, amended: the same for the jobs that pass audio validation and
\* parameter parsing (a job rejected before the lookup gets the error of
\* that step, which does not name the model).
C8_UnknownModelValidRequest ==
  \A t \in Threads :
    /\ Done(t)
    /\ ModelIdOf(jobs[t]) \in AbsentModels
    /\ Validate(variant, jobs[t].job).kind = "ok"
    => UnknownModelReported(jobs[t])

C8_Witness ==
  \E t \in Threads :
    /\ Done(t) /\ ModelIdOf(jobs[t]) = "ghost" /\ jobs[t].fault = "model"
    /\ Contains(jobs[t].result.error, "ghost")

\* C9: the f0 method the engine is called with is the requested one when
\* that is rmvpe, fcpe, crepe or crepe-tiny, and rmvpe otherwise.
RequestedF0(inp) ==
  IF "f0_method" \in DOMAIN inp
     /\ inp["f0_method"] \in { "rmvpe", "fcpe", "crepe", "crepe-tiny" }
  THEN inp["f0_method"] ELSE "rmvpe"

C9_F0MethodPassed ==
  \A t \in Threads :
    jobs[t].called => jobs[t].engine_f0 = RequestedF0(Input(jobs[t]))

\* C10: the engine is called only for jobs whose audio payload is present
\* and decodes to at least one byte.
C10_EngineOnlyForNonEmptyAudio ==
  \A t \in Threads :
    jobs[t].called =>
      /\ "audio_base64" \in DOMAIN Input(jobs[t])
      /\ b64decode(Input(jobs[t])["audio_base64"]).ok
      /\ Len(b64decode(Input(jobs[t])["audio_base64"]).bytes) > 0

\* A response without an error key.
IsSuccess(j) == ~j.raised /\ ~HasError(j)

\* The output path named no file, or an empty one, when the engine returned.
NoOutput(j) == j.returned /\ (j.written = NoFile \/ Size(j.written) = 0)

\* C11: when the engine returns without raising and the output file does not
\* exist or has zero size, the job ends with an error for the missing output
\* and never with a success; a success is returned only when the output file
\* exists with non-zero size.
C11_OutputVerified ==
  \A t \in Threads :
    Done(t) =>
      /\ NoOutput(jobs[t]) => HasError(jobs[t]) /\ jobs[t].fault = "output"
      /\ IsSuccess(jobs[t]) => jobs[t].returned /\ ~NoOutput(jobs[t])

\* The same for src/src/handler.py alone, which checks the output file.
C11_OutputVerifiedSrcHandler == variant = "src_handler" => C11_OutputVerified

\* The fields of a success response that the caller reads.
SuccessFields == { "audio_base64", "audio_url", "duration_ms", "model_id" }

\* C12: every response of the handler has one of two shapes: a failure with
\* an error key (a text) and no success field, or a success with duration_ms,
\* model_id and at least one of audio_base64 and audio_url, and no error key.
C12_ResponseShape ==
  \A t \in Threads :
    Done(t) =>
      /\ ~jobs[t].raised
      /\ LET d == DOMAIN jobs[t].result
         IN \/ /\ "error" \in d
               /\ d \cap SuccessFields = { }
               /\ Len(jobs[t].result.error) >= 1
            \/ /\ "error" \notin d
               /\ { "duration_ms", "model_id" } \subseteq d
               /\ d \cap { "audio_base64", "audio_url" } # { }

C12_Witness ==
  \E t, u \in Threads :
    /\ Done(t) /\ IsSuccess(jobs[t]) /\ "audio_base64" \in DOMAIN jobs[t].result
    /\ Done(u) /\ HasError(jobs[u])

\* C13: for an output file of InlineThreshold bytes or more, the remote store
\* accepting uploads, the success result includes audio_url and does not
\* include audio_base64.  (Nothing in the handlers makes the store refuse
\* an upload: none is ever attempted.)
C13_LargeOutputByUrl ==
  \A t \in Threads :
    /\ Done(t) /\ IsSuccess(jobs[t])
    /\ jobs[t].returned /\ jobs[t].written # NoFile
    /\ Size(jobs[t].written) >= InlineThreshold
    => /\ "audio_url" \in DOMAIN jobs[t].result
       /\ "audio_base64" \notin DOMAIN jobs[t].result

\* C14: when the output is larger than InlineThreshold and no upload has
\* succeeded, the job ends with an explicit delivery error: not with a
\* success without an audio field, and not with the oversized output inline.
C14_DeliveryErrorExplicit ==
  \A t \in Threads :
    /\ Done(t)
    /\ jobs[t].returned /\ jobs[t].written # NoFile
    /\ Size(jobs[t].written) > InlineThreshold
    /\ "audio_url" \notin DOMAIN jobs[t].result
    => /\ HasError(jobs[t])
       /\ "audio_base64" \notin DOMAIN jobs[t].result

\* C15: for an output file smaller than InlineThreshold, the success result
\* includes audio_base64, and decoding it gives exactly the bytes the engine
\* wrote to the output file.
C15_SmallOutputRoundTrip ==
  \A t \in Threads :
    /\ Done(t) /\ IsSuccess(jobs[t])
    /\ jobs[t].returned /\ jobs[t].written # NoFile
    /\ Size(jobs[t].written) < InlineThreshold
    => /\ "audio_base64" \in DOMAIN jobs[t].result
       /\ LET x == jobs[t].result.audio_base64
              d == b64decode(x.chars)
          IN /\ d.ok
             /\ [ bytes |-> d.bytes, repeat |-> x.repeat ] = jobs[t].written

C15_Witness ==
  \E t \in Threads :
    /\ Done(t) /\ IsSuccess(jobs[t])
    /\ jobs[t].written = File(<< 255, 0, 7, 9 >>)
    /\ jobs[t].result.audio_base64.chars = << "/", "w", "A", "H", "C", "Q", "=", "=" >>

\* C16: the statuses of POST /convert: 400 for every validation failure
\* (missing audio, a non-numeric parameter, an undecodable payload), 404 for
\* an unknown model, 500 for engine and delivery failures only; every error
\* response carries an error text.
C16_HttpStatusMapping ==
  variant = "api_server" =>
    \A t \in Threads :
      Done(t) =>
        /\ jobs[t].fault \in { "validation", "parsing", "decode" }
             => jobs[t].status = 400
        /\ jobs[t].fault = "model" => jobs[t].status = 404
        /\ jobs[t].status = 500
             => jobs[t].fault \in { "construct", "engine", "output" }
        /\ jobs[t].status \in { 400, 404, 500 }
             => HasError(jobs[t]) /\ Len(jobs[t].result.error) >= 1

\* The position in a lookup's log of a model file that downloaded while its
\* index did not, 0 when there is none.
IndexFailureAt(log) ==
  IF \E i \in 1..(Len(log) - 1) :
       /\ log[i][1][3] = "pth" /\ log[i][2]
       /\ log[i + 1][1][3] = "index" /\ ~log[i + 1][2]
  THEN CHOOSE i \in 1..(Len(log) - 1) :
         /\ log[i][1][3] = "pth" /\ log[i][2]
         /\ log[i + 1][1][3] = "index" /\ ~log[i + 1][2]
  ELSE 0

\* C17: when the model file of a version downloads and its index does not,
\* the lookup succeeds with that model path and an empty index path, tries
\* no further version, and the job goes on to the conversion.
C17_IndexFailureAbsorbed ==
  \A t \in Threads :
    IndexFailureAt(jobs[t].log) > 0 =>
      /\ jobs[t].pc = "tempfile"
      /\ jobs[t].model_path = CachePath(ModelIdOf(jobs[t]), "pth")
      /\ jobs[t].model_path \in cache
      /\ jobs[t].index_path = EmptyPath
      /\ Len(jobs[t].log) = IndexFailureAt(jobs[t].log) + 1

C17_Witness ==
  \E t \in Threads :
    /\ variant = "src_handler"
    /\ jobs[t].log = << << << "v2", "spb", "pth" >>, TRUE >>,
                        << << "v2", "spb", "index" >>, FALSE >> >>
    /\ jobs[t].pc = "tempfile" /\ jobs[t].index_path = EmptyPath

\* A job that the handler is running.
InFlight(t) == jobs[t].pc \notin { "idle", "done" }

\* C18: two jobs in flight at the same time use distinct input temp paths
\* and distinct output temp paths, whatever their requests (jobs without an
\* id and jobs with equal ids included).
C18_TempPathsDistinct ==
  \A t, u \in Threads :
    t # u /\ InFlight(t) /\ InFlight(u) =>
      /\ jobs[t].in_path # EmptyPath /\ jobs[u].in_path # EmptyPath
           => jobs[t].in_path # jobs[u].in_path
      /\ jobs[t].out_path # EmptyPath /\ jobs[u].out_path # EmptyPath
           => jobs[t].out_path # jobs[u].out_path

C18_Witness ==
  \E t, u \in Threads :
    /\ t # u
    /\ jobs[t].pc = "converting" /\ jobs[u].pc = "converting"
    /\ jobs[t].job = jobs[u].job
    /\ jobs[t].in_path # jobs[u].in_path
    /\ jobs[t].out_path # jobs[u].out_path

\* C19: the cache directory is append-only: a step of any job keeps every
\* file the directory holds, a model file is downloaded only when the
\* directory does not hold it, and at most once per model id.
C19_CacheAppendOnly ==
  [][ /\ cache \subseteq cache'
      /\ \A m \in ModelIds :
           downloads'[m] # downloads[m] =>
             /\ CachePath(m, "pth") \notin cache
             /\ CachePath(m, "pth") \in cache'
             /\ downloads[m] = 0 ]_vars

C19_Witness ==
  /\ downloads["kj_yesudas"] = 1
  /\ CachePath("kj_yesudas", "pth") \in cache
  /\ \E t \in Threads :
       /\ jobs[t].pc = "tempfile" /\ jobs[t].hit
       /\ ModelIdOf(jobs[t]) = "kj_yesudas"

\* C20: the paths of a successful lookup: the model path is the file of the
\* model id in the cache directory and that file exists; the index path is
\* the empty string or the path of an existing file, never the path of a
\* file that is absent.
C20_ResolvedPathsExist ==
  \A t \in Threads :
    jobs[t].model_path # EmptyPath =>
      /\ jobs[t].model_path = CachePath(ModelIdOf(jobs[t]), "pth")
      /\ jobs[t].model_path \in cache
      /\ \/ jobs[t].index_path = EmptyPath
         \/ /\ jobs[t].index_path = CachePath(ModelIdOf(jobs[t]), "index")
            /\ jobs[t].index_path \in cache

C20_Witness ==
  \E t \in Threads :
    /\ jobs[t].pc = "tempfile" /\ jobs[t].fetched
    /\ jobs[t].model_path \in cache
    /\ jobs[t].index_path = CachePath(ModelIdOf(jobs[t]), "index")
    /\ jobs[t].index_path \in cache

\* The response reports that the output file is missing.
ReportsMissingOutput(j) ==
  /\ j.fault = "output" /\ HasError(j)
  /\ j.result.error # << "Output file is empty" >>

\* C21: the cleanup of a job removes files of that job only: between the
\* return of a job's engine call and the read of its output, the output
\* path holds what the engine left there, whatever the other jobs do, and
\* no job whose engine call left an output file reports a missing output.
C21_CleanupOwnFilesOnly ==
  \A t \in Threads :
    /\ jobs[t].pc = "verify" => tmp[jobs[t].out_path] = jobs[t].written
    /\ Done(t) /\ jobs[t].returned /\ jobs[t].written # NoFile
         => ~ReportsMissingOutput(jobs[t])

C21_Witness ==
  \E t, u \in Threads :
    /\ t # u
    /\ jobs[t].pc = "verify" /\ jobs[t].written = File(<< 255, 0, 7, 9 >>)
    /\ Done(u) /\ jobs[u].called /\ jobs[u].returned
    /\ tmp[jobs[u].out_path] = NoFile

\* The steps of a job that come after the model lookup.
LaterSteps ==
  { "tempfile", "get_converter", "construct", "convert", "converting",
    "verify", "finally" }

\* The job has a temp path, an engine handle or an engine call to its name.
TouchedResources(j) ==
  \/ j.in_path # EmptyPath \/ j.out_path # EmptyPath
  \/ j.conv # 0 \/ j.called \/ j.returned

\* C22: a job creates its temp files and obtains (or constructs) the engine
\* handle only after audio validation, parameter parsing and the model
\* lookup have succeeded; a job that fails at one of these three steps ends
\* with an error, with no temp file created and no engine constructed or
\* called by it.
C22_StepOrder ==
  \A t \in Threads :
    /\ jobs[t].pc \in LaterSteps \/ TouchedResources(jobs[t])
         => /\ Validate(variant, jobs[t].job).kind = "ok"
            /\ jobs[t].model_path = CachePath(ModelIdOf(jobs[t]), "pth")
            /\ jobs[t].model_path \in cache
    /\ jobs[t].pc \in { "get_converter", "construct", "convert", "converting" }
         => tmp[jobs[t].in_path] # NoFile
    /\ Done(t) /\ jobs[t].fault \in { "validation", "parsing", "model" }
         => /\ HasError(jobs[t])
            /\ ~TouchedResources(jobs[t])
            /\ jobs[t].leftover = { }

C22_Witness ==
  \E t \in Threads :
    /\ variant = "handler"
    /\ Done(t) /\ jobs[t].fault = "parsing" /\ HasError(jobs[t])
    /\ constructions = 0 /\ converter = 0
    /\ \A p \in TmpPaths : tmp[p] = NoFile

====
